---- MODULE Spec2Model ----
(***************************************************************************)
(* Model of my-manet-routing-compare.cc: the RoutingExperiment object, the *)
(* CSV file it writes, and the ns-3 event queue that drives its handlers.  *)
(*                                                                         *)
(* Virtual time is counted in ticks, TicksPerSecond ticks to the simulated *)
(* second.  The doubles a row carries are kept in thousandths: its time in *)
(* milliseconds, its rate in thousandths of a kb/s, which is the number of *)
(* bits received (kbs = bytes * 8.0 / 1000).                               *)
(*                                                                         *)
(* Spec      the program as main and Run wire it.                          *)
(* FairSpec  Spec with the fairness of Simulator::Run's dispatch loop.     *)
(* RecvSpec  the experiment with the reception callback bound to every     *)
(*           sink socket through SetupPacketReceive, the wiring that       *)
(*           ReceivePacket and the accumulator are written for.            *)
(***************************************************************************)
EXTENDS Integers, Sequences, FiniteSets

\* ------------------------------------------------------------------ bounds

\* Resolution of virtual time: ticks per simulated second.
TicksPerSecond == 2

\* Sink/source pairs the loop of Run installs.  main passes 15; the model runs
\* the same loop over a smaller population.
nSinks == 2

\* Packets the network delivers to sink endpoints during one run, at most.
MaxPackets == 3

\* Packets one reception callback finds queued on its socket, at most.
MaxBurst == 2

\* A segment shorter than packetSize (a partial TCP segment).
ShortSize == 64

\* -------------------------------------------------------- program constants

\* double TotalTime = 103.0
TotalTime == 103

\* uint32_t packetSize = 512
packetSize == 512

\* var->GetValue (0.0,1.0)
SinkStartMin == 0
SinkStartMax == 1

\* var->GetValue (100.0,101.0)
SourceStartMin == 100
SourceStartMax == 101

\* std::ostream prints a double with 6 significant digits
StreamPrecision == 6

VARIABLES
  pc,               \* position of main / Run
  now,              \* Simulator::Now () of the latest event dispatched, in ticks
  events,           \* the simulator's pending events
  uid,              \* uid the next scheduled event gets
  stopped,          \* Simulator::Stop has been dispatched
  bytesTotal,       \* RoutingExperiment::bytesTotal
  packetsReceived,  \* RoutingExperiment::packetsReceived
  m_nSinks,         \* RoutingExperiment::m_nSinks (not read before Run sets it)
  m_protocolName,   \* RoutingExperiment::m_protocolName
  m_txp,            \* RoutingExperiment::m_txp (not read before Run sets it)
  m_protocol,       \* RoutingExperiment::m_protocol
  file,             \* the lines of the CSV file
  i,                \* loop variable of Run's flow loop
  flow,             \* the times Start and Stop are given in the loop's latest pass
  sinkUp,           \* sinks whose application has started
  sourceUp,         \* sources whose application has started
  recvCb,           \* sinks whose socket carries the ReceivePacket callback
  rxLog,            \* sizes of the packets delivered to sink endpoints so far
  mark              \* Len(rxLog) at the latest CheckThroughput

vars == <<pc, now, events, uid, stopped, bytesTotal, packetsReceived, m_nSinks,
          m_protocolName, m_txp, m_protocol, file, i, flow, sinkUp, sourceUp,
          recvCb, rxLog, mark>>

\* ----------------------------------------------------------------- helpers

Interval == 1 * TicksPerSecond

TotalTicks == TotalTime * TicksPerSecond

PacketSizes == {ShortSize, packetSize}

RECURSIVE SumSeq(_)
SumSeq(s) == IF s = <<>> THEN 0 ELSE Head(s) + SumSeq(Tail(s))

RECURSIVE Pow10(_)
Pow10(n) == IF n = 0 THEN 1 ELSE 10 * Pow10(n - 1)

RECURSIVE Digits(_)
Digits(n) == IF n < 10 THEN 1 ELSE 1 + Digits(n \div 10)

\* operator<< (double) at the stream's default precision: the value rounded to
\* StreamPrecision significant digits.  v is in thousandths.
FormatDouble(v) ==
  IF Digits(v) <= StreamPrecision
  THEN v
  ELSE LET unit == Pow10(Digits(v) - StreamPrecision)
       IN  ((v + unit \div 2) \div unit) * unit

UniformDrawClosed(min, max) == (min * TicksPerSecond) .. (max * TicksPerSecond)

\* Ptr<UniformRandomVariable>::GetValue (min, max): a value in [min, max).
UniformDraw(min, max) == (min * TicksPerSecond) .. (max * TicksPerSecond - 1)

\* ------------------------------------------------------------- the CSV file

HeaderLine ==
  [kind |-> "header",
   text |-> "SimulationSecond,ReceiveRate,PacketsReceived,NumberOfSinks,RoutingProtocol,TransmissionPower"]

\* Time::GetSeconds (), in thousandths
GetSeconds(t) == (t * 1000) \div TicksPerSecond

SampleRow(t, kbs, pkts) ==
  [kind |-> "row", time |-> FormatDouble(GetSeconds(t)), kbs |-> FormatDouble(kbs),
   pkts |-> pkts, sinks |-> m_nSinks, proto |-> m_protocolName, txp |-> m_txp]

\* What a previous run left in the file.
OldFile ==
  <<HeaderLine,
    [kind |-> "row", time |-> 7000, kbs |-> 4096, pkts |-> 1, sinks |-> 15,
     proto |-> "AODV", txp |-> "7.5"],
    HeaderLine>>

\* std::ofstream out (name): the file is truncated.
TruncateAndWrite(f, line) == <<line>>

\* The row written through a stream opened without std::ios::app.
OpenTruncated(f, line) == <<line>>

\* std::ofstream out (name, std::ios::app)
AppendRow(f, line) == Append(f, line)

\* ------------------------------------------------------------ the simulator

NoNode == -1

Event(t, u, k, n) == [ts |-> t, uid |-> u, kind |-> k, node |-> n]

Earlier(a, b) == a.ts < b.ts \/ (a.ts = b.ts /\ a.uid < b.uid)

NextEvent == CHOOSE e \in events : \A f \in events \ {e} : Earlier(e, f)

Running == pc = "simrun" /\ ~stopped /\ events # {}

\* The next firing two intervals on.
LateFiringTime(t) == t + 2 * Interval

\* Seconds (1.0) after the firing at t
NextFiringTime(t) == t + Interval

\* A firing that schedules nothing.
NoReschedule(evs, t, u) == evs

\* Simulator::Schedule (Seconds (1.0), &RoutingExperiment::CheckThroughput, this)
ScheduleCheck(evs, t, u) ==
  evs \cup {Event(NextFiringTime(t), u, "CheckThroughput", NoNode)}

\* A stop one tick after TotalTime.
LateStopTime == TotalTicks + 1

\* Seconds (TotalTime)
StopTime == TotalTicks

\* Simulator::Stop (Seconds (TotalTime)): the stop is an event like the others,
\* and of two events of one time the one scheduled first is dispatched first.
ScheduleStop(evs, t, u) == evs \cup {Event(t + StopTime, u, "Stop", NoNode)}

\* --------------------------------------------------------- the accumulator

\* bytesTotal = 0
BytesAfterDrain(b) == 0

\* A drain that leaves the packet counter as it is.
KeepPackets(p) == p

\* packetsReceived = 0
PacketsAfterDrain(p) == 0

\* The rate taken with 1024 bits to the kb.
KbsBinary(b) == (b * 8 * 1000) \div 1024

\* double kbs = (bytesTotal * 8.0) / 1000, in thousandths
Kbs(b) == b * 8

\* One count for each callback, whatever it finds queued.
CountCallbacks(p, pkts) == p + 1

\* bytesTotal += packet->GetSize (), for every packet of the loop.  The counters
\* are uint32_t; the sources send 2048 bit/s from second 100 to second 103, so
\* a run's sums stay far below 2^32 and the counters never wrap.
AddBytes(b, pkts) == b + SumSeq(pkts)

\* packetsReceived += 1, for every packet of the loop
CountPackets(p, pkts) == p + Len(pkts)

\* The body of CheckThroughput but for its Simulator::Schedule.
CheckThroughputBody(t) ==
  /\ file' = AppendRow(file, SampleRow(t, Kbs(bytesTotal), packetsReceived))
  /\ bytesTotal' = BytesAfterDrain(bytesTotal)
  /\ packetsReceived' = PacketsAfterDrain(packetsReceived)
  /\ mark' = Len(rxLog)

\* -------------------------------------------------------------------- Init

Init ==
  /\ pc = "main"
  /\ now = 0
  /\ events = {}
  /\ uid = 0
  /\ stopped = FALSE
  /\ bytesTotal = 0
  /\ packetsReceived = 0
  /\ m_nSinks = 0
  /\ m_protocolName = ""
  /\ m_txp = ""
  /\ m_protocol = 2
  /\ file \in {<<>>, OldFile}
  /\ i = 0
  /\ flow = <<>>
  /\ sinkUp = {}
  /\ sourceUp = {}
  /\ recvCb = {}
  /\ rxLog = <<>>
  /\ mark = 0

\* ----------------------------------------------------------------- actions

\* main: the header is written, then Run is called.
Main ==
  /\ pc = "main"
  /\ file' = TruncateAndWrite(file, HeaderLine)
  /\ pc' = "Run"
  /\ UNCHANGED <<now, events, uid, stopped, bytesTotal, packetsReceived, m_nSinks,
                 m_protocolName, m_txp, m_protocol, i, flow, sinkUp, sourceUp,
                 recvCb, rxLog, mark>>

\* Run, up to its flow loop: the fields are set and AODV is installed.
Run_Setup ==
  /\ pc = "Run"
  /\ m_nSinks' = nSinks
  /\ m_txp' = "7.5"
  /\ m_protocolName' = "AODV"
  /\ i' = 0
  /\ pc' = "loop"
  /\ UNCHANGED <<now, events, uid, stopped, bytesTotal, packetsReceived,
                 m_protocol, file, flow, sinkUp, sourceUp, recvCb, rxLog, mark>>

\* One pass of the loop: the times the two applications of pair i are given,
\* and the start events they put on the queue.
InstallFlow(sinkStart, sourceStart) ==
  /\ flow' = <<[sinkStart |-> sinkStart, sinkStop |-> StopTime,
                sourceStart |-> sourceStart, sourceStop |-> StopTime]>>
  /\ events' = events \cup {Event(sinkStart, uid, "SinkStart", i),
                            Event(sourceStart, uid + 1, "SourceStart", i)}
  /\ uid' = uid + 2
  /\ i' = i + 1

Run_InstallFlow ==
  /\ pc = "loop"
  /\ i < nSinks
  /\ \E sinkStart \in UniformDraw(SinkStartMin, SinkStartMax),
        sourceStart \in UniformDraw(SourceStartMin, SourceStartMax) :
        InstallFlow(sinkStart, sourceStart)
  /\ UNCHANGED <<pc, now, stopped, bytesTotal, packetsReceived, m_nSinks,
                 m_protocolName, m_txp, m_protocol, file, sinkUp, sourceUp,
                 recvCb, rxLog, mark>>

\* The loop with the sink socket made by SetupPacketReceive.
Run_InstallFlowRecv ==
  /\ pc = "loop"
  /\ i < nSinks
  /\ \E sinkStart \in UniformDraw(SinkStartMin, SinkStartMax),
        sourceStart \in UniformDraw(SourceStartMin, SourceStartMax) :
        InstallFlow(sinkStart, sourceStart)
  /\ recvCb' = recvCb \cup {i}
  /\ UNCHANGED <<pc, now, stopped, bytesTotal, packetsReceived, m_nSinks,
                 m_protocolName, m_txp, m_protocol, file, sinkUp, sourceUp,
                 rxLog, mark>>

\* The end of Run: CheckThroughput is called, the stop is scheduled and
\* Simulator::Run is entered.
Run_Simulate ==
  /\ pc = "loop"
  /\ i = nSinks
  /\ CheckThroughputBody(now)
  /\ events' = ScheduleStop(ScheduleCheck(events, now, uid), now, uid + 1)
  /\ uid' = uid + 2
  /\ pc' = "simrun"
  /\ flow' = <<>>
  /\ UNCHANGED <<now, stopped, m_nSinks, m_protocolName, m_txp, m_protocol, i,
                 sinkUp, sourceUp, recvCb, rxLog>>

\* Simulator::Run dispatches the sampler's event.
CheckThroughput ==
  /\ Running
  /\ NextEvent.kind = "CheckThroughput"
  /\ now' = NextEvent.ts
  /\ CheckThroughputBody(NextEvent.ts)
  /\ events' = ScheduleCheck(events \ {NextEvent}, NextEvent.ts, uid)
  /\ uid' = uid + 1
  /\ UNCHANGED <<pc, stopped, m_nSinks, m_protocolName, m_txp, m_protocol, i,
                 flow, sinkUp, sourceUp, recvCb, rxLog>>

\* Simulator::Run dispatches the start of a sink application.
SinkStart ==
  /\ Running
  /\ NextEvent.kind = "SinkStart"
  /\ now' = NextEvent.ts
  /\ events' = events \ {NextEvent}
  /\ sinkUp' = sinkUp \cup {NextEvent.node}
  /\ UNCHANGED <<pc, uid, stopped, bytesTotal, packetsReceived, m_nSinks,
                 m_protocolName, m_txp, m_protocol, file, i, flow, sourceUp,
                 recvCb, rxLog, mark>>

\* Simulator::Run dispatches the start of a source application.
SourceStart ==
  /\ Running
  /\ NextEvent.kind = "SourceStart"
  /\ now' = NextEvent.ts
  /\ events' = events \ {NextEvent}
  /\ sourceUp' = sourceUp \cup {NextEvent.node}
  /\ UNCHANGED <<pc, uid, stopped, bytesTotal, packetsReceived, m_nSinks,
                 m_protocolName, m_txp, m_protocol, file, i, flow, sinkUp,
                 recvCb, rxLog, mark>>

\* Simulator::Run dispatches the stop event.
SimulatorStop ==
  /\ Running
  /\ NextEvent.kind = "Stop"
  /\ now' = NextEvent.ts
  /\ events' = events \ {NextEvent}
  /\ stopped' = TRUE
  /\ UNCHANGED <<pc, uid, bytesTotal, packetsReceived, m_nSinks, m_protocolName,
                 m_txp, m_protocol, file, i, flow, sinkUp, sourceUp, recvCb,
                 rxLog, mark>>

\* Simulator::Run returns; Simulator::Destroy drops what is still pending.
Run_Finish ==
  /\ pc = "simrun"
  /\ stopped \/ events = {}
  /\ events' = {}
  /\ pc' = "done"
  /\ UNCHANGED <<now, uid, stopped, bytesTotal, packetsReceived, m_nSinks,
                 m_protocolName, m_txp, m_protocol, file, i, flow, sinkUp,
                 sourceUp, recvCb, rxLog, mark>>

\* A packet reaches the PacketSink application of pair n: the experiment
\* object hears nothing of it.
PacketSinkRx ==
  /\ Running
  /\ Len(rxLog) < MaxPackets
  /\ \E n \in (sinkUp \cap sourceUp) \ recvCb, size \in PacketSizes :
        rxLog' = Append(rxLog, size)
  /\ UNCHANGED <<pc, now, events, uid, stopped, bytesTotal, packetsReceived,
                 m_nSinks, m_protocolName, m_txp, m_protocol, file, i, flow,
                 sinkUp, sourceUp, recvCb, mark>>

\* The reception callback of a sink socket: every queued packet is counted.
\* A reception takes place between the events that the queue holds; its own
\* time goes to the log line only.
ReceivePacket ==
  /\ Running
  /\ \E n \in sourceUp \cap recvCb, len \in 1 .. MaxBurst :
       \E pkts \in [1 .. len -> PacketSizes] :
          /\ Len(rxLog) + len <= MaxPackets
          /\ bytesTotal' = AddBytes(bytesTotal, pkts)
          /\ packetsReceived' = CountPackets(packetsReceived, pkts)
          /\ rxLog' = rxLog \o pkts
  /\ UNCHANGED <<pc, now, events, uid, stopped, m_nSinks, m_protocolName, m_txp,
                 m_protocol, file, i, flow, sinkUp, sourceUp, recvCb, mark>>

Dispatch == CheckThroughput \/ SinkStart \/ SourceStart \/ SimulatorStop

Next ==
  \/ Main
  \/ Run_Setup
  \/ Run_InstallFlow
  \/ Run_Simulate
  \/ CheckThroughput
  \/ SinkStart
  \/ SourceStart
  \/ SimulatorStop
  \/ Run_Finish
  \/ PacketSinkRx

NextRecv ==
  \/ Main
  \/ Run_Setup
  \/ Run_InstallFlowRecv
  \/ Run_Simulate
  \/ CheckThroughput
  \/ SinkStart
  \/ SourceStart
  \/ SimulatorStop
  \/ Run_Finish
  \/ ReceivePacket

Spec == Init /\ [][Next]_vars

\* Simulator::Run dispatches events for as long as one is pending and the
\* simulator is not stopped; main and Run run straight through.
FairSpec == Init /\ [][Next]_vars /\ WF_vars(Dispatch)
                 /\ WF_vars(Main \/ Run_Setup \/ Run_InstallFlow \/ Run_Simulate \/ Run_Finish)

RecvSpec == Init /\ [][NextRecv]_vars

\* ------------------------------------------------------------------ claims

\* The data rows of the file: what follows the header.
Rows == IF Len(file) >= 2 THEN SubSeq(file, 2, Len(file)) ELSE <<>>

RowTimes == {Rows[k].time : k \in 1 .. Len(Rows)}

\* A step in which CheckThroughput wrote its row.
Fired == pc # "main" /\ Len(file') = Len(file) + 1

\* The receptions since the latest firing.
Window == SubSeq(rxLog, mark + 1, Len(rxLog))

RECURSIVE SumPkts(_)
SumPkts(rs) == IF rs = <<>> THEN 0 ELSE Head(rs).pkts + SumPkts(Tail(rs))

RECURSIVE SumKbs(_)
SumKbs(rs) == IF rs = <<>> THEN 0 ELSE Head(rs).kbs + SumKbs(Tail(rs))

PendingChecks == {e \in events : e.kind = "CheckThroughput"}

C2_RowsFromIntervalToTotal ==
  pc = "done" => RowTimes = {k * 1000 : k \in 1 .. TotalTime}

\* C2, amended: the rows of a finished run are those of the times
\* 0, interval, ..., totalDuration - interval, one row each.
C2_RowsFromZeroBelowTotal ==
  pc = "done" => /\ RowTimes = {k * 1000 : k \in 0 .. (TotalTime - 1)}
                 /\ Len(Rows) = TotalTime

C2_Witness == pc = "done" /\ Len(Rows) > 0 /\ now = TotalTicks

\* C3: rows are appended in strictly increasing time order and two
\* consecutive rows are exactly one interval (1 s) apart, whatever receptions
\* come between the firings.
C3_RowsOneIntervalApart ==
  pc # "main" =>
    \A k \in 2 .. Len(Rows) : Rows[k].time - Rows[k - 1].time = 1000

C3_Witness == Len(Rows) >= 3 /\ Len(rxLog) >= 2 /\ mark >= 1 /\ pc = "simrun"

\* C4: between firings bytesTotal and packetsReceived never decrease; right
\* after a firing both are 0; a firing that follows the previous one with no
\* reception in between reports 0 bytes and 0 packets.
C4_CountersResetAndGrow ==
  [][/\ Fired => /\ bytesTotal' = 0
                 /\ packetsReceived' = 0
                 /\ (mark = Len(rxLog) /\ Len(file) >= 2) =>
                       (file'[Len(file')].kbs = 0 /\ file'[Len(file')].pkts = 0)
     /\ ~Fired => /\ bytesTotal' >= bytesTotal
                  /\ packetsReceived' >= packetsReceived]_vars

\* Packets were counted, a firing drained them, and the next firing, with no
\* reception in between, has written its row.
C4_Witness ==
  /\ Len(file) >= 3
  /\ file[Len(file) - 1].kind = "row" /\ file[Len(file) - 1].pkts > 0
  /\ file[Len(file)].kind = "row" /\ file[Len(file)].pkts = 0
  /\ bytesTotal = 0 /\ packetsReceived = 0

\* C5: a packet delivered to a sink endpoint is fed to the accumulator:
\* bytesTotal grows by its size and packetsReceived by 1.
C5_SinkFeedsAccumulator ==
  [][rxLog' # rxLog =>
       /\ bytesTotal' = bytesTotal + SumSeq(SubSeq(rxLog', Len(rxLog) + 1, Len(rxLog')))
       /\ packetsReceived' = packetsReceived + (Len(rxLog') - Len(rxLog))]_vars

\* C6: once main has written it, the header is the first line of the file
\* and its only header line, and no later write truncates the file or removes
\* or changes a line already there.
C6_HeaderOnceAndFirst ==
  [][pc' # "main" =>
       /\ Len(file') >= 1
       /\ file'[1] = HeaderLine
       /\ \A k \in 2 .. Len(file') : file'[k] # HeaderLine
       /\ pc # "main" => /\ Len(file') >= Len(file)
                         /\ SubSeq(file', 1, Len(file)) = file]_vars

\* The file held an older run's lines, and now holds the header and rows.
C6_Witness == Len(file) >= 5 /\ file[1] = HeaderLine /\ file[3].time = 1000

C9_SelfPerpetuating ==
  /\ [](pc = "simrun" => Cardinality(PendingChecks) = 1)
  /\ [][Fired => \E e \in events' :
                    e.kind = "CheckThroughput" /\ e.ts = now' + Interval]_vars
  /\ \A par \in {0, 1} :
       (Running /\ Len(Rows) < TotalTime /\ Len(Rows) % 2 = par)
          ~> (Len(Rows) % 2 = 1 - par)

C9_Witness ==
  pc = "simrun" /\ Len(Rows) >= 3 /\ Cardinality(PendingChecks) = 1 /\ ~stopped

====
